---- MODULE Spec2Model ----
(***************************************************************************)
(* A model of the Game Boy (Sharp SM83) emulator core of mygbpy: the       *)
(* memory bus of memory.py (address decoding, mapper) and the CPU of       *)
(* cpu.py (register file, flags, fetch/decode/dispatch, opcode handlers).  *)
(*                                                                         *)
(* Integers are Python integers (unbounded); `x & 0xFF` on a Python int    *)
(* is x mod 256 (also for negative x), which is TLA+'s x % 256.            *)
(*                                                                         *)
(* A bytearray(n) is zero initialised and only ever indexed inside 0..n-1  *)
(* by the bus; it is represented by the finite map of its non-zero cells.  *)
(***************************************************************************)
EXTENDS Integers, Sequences, FiniteSets, TLC

VARIABLES
    cpu,      \* the CPU object's fields: registers, pc, sp, halted
    memory,   \* the Memory object's fields: mbc, vram, eram, wram, oam, io, hram, ie_register
    last,     \* history: the last call made on the objects and what it returned or raised
    budget    \* history: how many calls of each kind were made so far

vars == <<cpu, memory, last, budget>>

(***************************************************************************)
(* Bounds of the model.                                                    *)
(***************************************************************************)
MaxSteps == 4     \* CPU.step calls per run
MaxSets  == 2     \* register-setter writes per run
MaxBusOps == 2    \* direct Memory.read / Memory.write calls per run

(***************************************************************************)
(* Bit arithmetic on Python ints.                                          *)
(***************************************************************************)
RECURSIVE BitAnd(_, _)
BitAnd(x, y) ==
    IF x = 0 \/ y = 0 THEN 0
    ELSE 2 * BitAnd(x \div 2, y \div 2) + (IF x % 2 = 1 /\ y % 2 = 1 THEN 1 ELSE 0)

RECURSIVE BitOr(_, _)
BitOr(x, y) ==
    IF x = 0 THEN y
    ELSE IF y = 0 THEN x
    ELSE 2 * BitOr(x \div 2, y \div 2) + (IF x % 2 = 1 \/ y % 2 = 1 THEN 1 ELSE 0)

\* value & 0xFF, value & 0xFFFF, value & 0xF0, value & 0b11111 for any int
Mask8(value)  == value % \h100
Mask16(value) == value % \h10000
MaskF0(value) == ((value % \h100) \div \h10) * \h10
Mask5(value)  == value % \h20

(***************************************************************************)
(* Byte buffers.                                                           *)
(***************************************************************************)
Zeros == [j \in {} |-> 0]

Get(buf, i) == IF i \in DOMAIN buf THEN buf[i] ELSE 0

Put(buf, i, v) ==
    IF v = 0 THEN [j \in (DOMAIN buf) \ {i} |-> buf[j]]
    ELSE [j \in (DOMAIN buf) \cup {i} |-> IF j = i THEN v ELSE buf[j]]

(***************************************************************************)
(* Errors: what a call raised. NoErr is a normal return.                   *)
(*   ValueError("Invalid memory address: ..")        -> InvalidAddress     *)
(*   ValueError("Cannot write to unusable memory..") -> ProhibitedWrite    *)
(*   NotImplementedError("Opcode .. not implemented")-> UnimplementedOpcode*)
(*   NotImplementedError("MBC type .. not impl..")   -> UnsupportedMapper  *)
(*   IndexError (rom[i] with i >= len(rom))          -> IndexError         *)
(* An error record carries exactly what the exception's message carries.   *)
(***************************************************************************)
NoErr == [kind |-> "none"]

\* a bus that answers an unmapped address instead of raising
InvalidAddress_not_raised(address) == NoErr

InvalidAddress(address) == [kind |-> "InvalidAddress", address |-> address]

\* a bus that drops a write to the unusable area instead of raising
ProhibitedWrite_not_raised(address) == NoErr

ProhibitedWrite(address) == [kind |-> "ProhibitedWrite", address |-> address]

UnimplementedOpcode(opcode) == [kind |-> "UnimplementedOpcode", opcode |-> opcode]
UnsupportedMapper(mbc_type) == [kind |-> "UnsupportedMapper", mbc_type |-> mbc_type]
IndexError == [kind |-> "IndexError"]

Ok(val) == [err |-> NoErr, val |-> val]
Raise(err) == [err |-> err, val |-> -1]

(***************************************************************************)
(* ROM blobs: a length and the non-zero bytes.                             *)
(***************************************************************************)
RomIndex(rom, i) ==
    IF i < rom.len THEN Ok(Get(rom.data, i)) ELSE Raise(IndexError)

(***************************************************************************)
(* memory.py: the mappers.                                                 *)
(***************************************************************************)
NoMBC(rom) == [kind |-> "NoMBC", rom |-> rom, rom_bank |-> 0]

MBC1(rom) == [kind |-> "MBC1", rom |-> rom, rom_bank |-> 1]

NoMBC_read(mbc, address) == RomIndex(mbc.rom, address)

NoMBC_write(mbc, address, value) == mbc

MBC1_read(mbc, address) ==
    IF address < \h4000
    THEN RomIndex(mbc.rom, address)
    ELSE RomIndex(mbc.rom, address - \h4000 + mbc.rom_bank * \h4000)

\* a bank register that keeps all eight bits of the value written
MBC1_write_unmasked(mbc, address, value) ==
    IF \h2000 <= address /\ address <= \h3FFF
    THEN [mbc EXCEPT !.rom_bank = IF value # 0 THEN value ELSE 1]
    ELSE mbc

\* a bank register that answers writes anywhere from 0x2000 up
MBC1_write_wide(mbc, address, value) ==
    IF \h2000 <= address
    THEN LET v5 == Mask5(value)
         IN  [mbc EXCEPT !.rom_bank = IF v5 # 0 THEN v5 ELSE 1]
    ELSE mbc

MBC1_write(mbc, address, value) ==
    IF \h2000 <= address /\ address <= \h3FFF
    THEN LET v5 == Mask5(value)
         IN  [mbc EXCEPT !.rom_bank = IF v5 # 0 THEN v5 ELSE 1]
    ELSE mbc

mbc_read(mbc, address) ==
    IF mbc.kind = "MBC1" THEN MBC1_read(mbc, address) ELSE NoMBC_read(mbc, address)

mbc_write(mbc, address, value) ==
    IF mbc.kind = "MBC1" THEN MBC1_write(mbc, address, value)
    ELSE NoMBC_write(mbc, address, value)

\* a detection that falls back to NoMBC for a type it does not know
detect_mbc_fallback(rom) ==
    LET t == RomIndex(rom, \h0147)
    IN  IF t.err # NoErr THEN Raise(t.err)
        ELSE IF t.val \in {1, 2, 3} THEN Ok(MBC1(rom))
        ELSE Ok(NoMBC(rom))

\* detect_mbc: [err, val] with val the mapper
detect_mbc(rom) ==
    LET t == RomIndex(rom, \h0147)
    IN  IF t.err # NoErr THEN Raise(t.err)
        ELSE IF t.val = 0 THEN Ok(NoMBC(rom))
        ELSE IF t.val \in {1, 2, 3} THEN Ok(MBC1(rom))
        ELSE Raise(UnsupportedMapper(t.val))

\* Memory.__init__ given the mapper detect_mbc returned
Memory_init(mbc) ==
    [mbc |-> mbc, vram |-> Zeros, eram |-> Zeros, wram |-> Zeros, oam |-> Zeros,
     io |-> Zeros, hram |-> Zeros, ie_register |-> 0]

(***************************************************************************)
(* memory.py: Memory.read and Memory.write.                                *)
(***************************************************************************)
RECURSIVE read(_, _)
read(m, address) ==
    IF 0 <= address /\ address <= \h7FFF THEN mbc_read(m.mbc, address)
    ELSE IF \h8000 <= address /\ address <= \h9FFF THEN Ok(Get(m.vram, address - \h8000))
    ELSE IF \hA000 <= address /\ address <= \hBFFF THEN Ok(Get(m.eram, address - \hA000))
    ELSE IF \hC000 <= address /\ address <= \hCFFF THEN Ok(Get(m.wram, address - \hC000))
    ELSE IF \hD000 <= address /\ address <= \hDFFF THEN Ok(Get(m.wram, \h1000 + (address - \hD000)))
    ELSE IF \hE000 <= address /\ address <= \hFDFF THEN read(m, address - \h2000)
    ELSE IF \hFE00 <= address /\ address <= \hFE9F THEN Ok(Get(m.oam, address - \hFE00))
    ELSE IF \hFEA0 <= address /\ address <= \hFEFF THEN Ok(0)
    ELSE IF \hFF00 <= address /\ address <= \hFF7F THEN Ok(Get(m.io, address - \hFF00))
    ELSE IF \hFF80 <= address /\ address <= \hFFFE THEN Ok(Get(m.hram, address - \hFF80))
    ELSE IF address = \hFFFF THEN Ok(m.ie_register)
    ELSE Raise(InvalidAddress(address))

\* a write that does not reach work RAM through the echo range
write_echo_dropped(m, address, value0) ==
    LET value == Mask8(value0)
    IN  IF 0 <= address /\ address <= \h7FFF
        THEN Ok([m EXCEPT !.mbc = mbc_write(m.mbc, address, value)])
        ELSE IF \h8000 <= address /\ address <= \h9FFF
        THEN Ok([m EXCEPT !.vram = Put(m.vram, address - \h8000, value)])
        ELSE IF \hA000 <= address /\ address <= \hBFFF
        THEN Ok([m EXCEPT !.eram = Put(m.eram, address - \hA000, value)])
        ELSE IF \hC000 <= address /\ address <= \hCFFF
        THEN Ok([m EXCEPT !.wram = Put(m.wram, address - \hC000, value)])
        ELSE IF \hD000 <= address /\ address <= \hDFFF
        THEN Ok([m EXCEPT !.wram = Put(m.wram, \h1000 + (address - \hD000), value)])
        ELSE IF \hE000 <= address /\ address <= \hFDFF
        THEN Ok(m)
        ELSE IF \hFE00 <= address /\ address <= \hFE9F
        THEN Ok([m EXCEPT !.oam = Put(m.oam, address - \hFE00, value)])
        ELSE IF \hFEA0 <= address /\ address <= \hFEFF
        THEN [err |-> ProhibitedWrite(address), val |-> m]
        ELSE IF \hFF00 <= address /\ address <= \hFF7F
        THEN Ok([m EXCEPT !.io = Put(m.io, address - \hFF00, value)])
        ELSE IF \hFF80 <= address /\ address <= \hFFFE
        THEN Ok([m EXCEPT !.hram = Put(m.hram, address - \hFF80, value)])
        ELSE [err |-> InvalidAddress(address), val |-> m]

\* a write that indexes the upper half of work RAM like the lower half
write_wram_halves_aliased(m, address, value0) ==
    LET value == Mask8(value0)
    IN  IF 0 <= address /\ address <= \h7FFF
        THEN Ok([m EXCEPT !.mbc = mbc_write(m.mbc, address, value)])
        ELSE IF \h8000 <= address /\ address <= \h9FFF
        THEN Ok([m EXCEPT !.vram = Put(m.vram, address - \h8000, value)])
        ELSE IF \hA000 <= address /\ address <= \hBFFF
        THEN Ok([m EXCEPT !.eram = Put(m.eram, address - \hA000, value)])
        ELSE IF \hC000 <= address /\ address <= \hCFFF
        THEN Ok([m EXCEPT !.wram = Put(m.wram, address - \hC000, value)])
        ELSE IF \hD000 <= address /\ address <= \hDFFF
        THEN Ok([m EXCEPT !.wram = Put(m.wram, address - \hD000, value)])
        ELSE IF \hE000 <= address /\ address <= \hFDFF
        THEN Ok([m EXCEPT !.wram = Put(m.wram, address - \hE000, value)])
        ELSE IF \hFE00 <= address /\ address <= \hFE9F
        THEN Ok([m EXCEPT !.oam = Put(m.oam, address - \hFE00, value)])
        ELSE IF \hFEA0 <= address /\ address <= \hFEFF
        THEN [err |-> ProhibitedWrite(address), val |-> m]
        ELSE IF \hFF00 <= address /\ address <= \hFF7F
        THEN Ok([m EXCEPT !.io = Put(m.io, address - \hFF00, value)])
        ELSE IF \hFF80 <= address /\ address <= \hFFFE
        THEN Ok([m EXCEPT !.hram = Put(m.hram, address - \hFF80, value)])
        ELSE [err |-> InvalidAddress(address), val |-> m]

\* Memory.write: [err, val] with val the Memory object after the call
RECURSIVE write(_, _, _)
write(m, address, value0) ==
    LET value == Mask8(value0)
    IN  IF 0 <= address /\ address <= \h7FFF
        THEN Ok([m EXCEPT !.mbc = mbc_write(m.mbc, address, value)])
        ELSE IF \h8000 <= address /\ address <= \h9FFF
        THEN Ok([m EXCEPT !.vram = Put(m.vram, address - \h8000, value)])
        ELSE IF \hA000 <= address /\ address <= \hBFFF
        THEN Ok([m EXCEPT !.eram = Put(m.eram, address - \hA000, value)])
        ELSE IF \hC000 <= address /\ address <= \hCFFF
        THEN Ok([m EXCEPT !.wram = Put(m.wram, address - \hC000, value)])
        ELSE IF \hD000 <= address /\ address <= \hDFFF
        THEN Ok([m EXCEPT !.wram = Put(m.wram, \h1000 + (address - \hD000), value)])
        ELSE IF \hE000 <= address /\ address <= \hFDFF
        THEN write(m, address - \h2000, value)
        ELSE IF \hFE00 <= address /\ address <= \hFE9F
        THEN Ok([m EXCEPT !.oam = Put(m.oam, address - \hFE00, value)])
        ELSE IF \hFEA0 <= address /\ address <= \hFEFF
        THEN [err |-> ProhibitedWrite(address), val |-> m]
        ELSE IF \hFF00 <= address /\ address <= \hFF7F
        THEN Ok([m EXCEPT !.io = Put(m.io, address - \hFF00, value)])
        ELSE IF \hFF80 <= address /\ address <= \hFFFE
        THEN Ok([m EXCEPT !.hram = Put(m.hram, address - \hFF80, value)])
        ELSE [err |-> InvalidAddress(address), val |-> m]

(***************************************************************************)
(* cpu.py: the register file. A CPU value is the record of the object's    *)
(* fields _a _f _b _c _d _e _h _l _sp _pc and halted.                       *)
(***************************************************************************)
CPU_init ==
    [pc |-> \h0100, sp |-> \hFFFE, a |-> \h01, f |-> \h00,
     b |-> 0, c |-> 0, d |-> 0, e |-> 0, h |-> 0, l |-> 0, halted |-> FALSE]

set_pc(cp, value) == [cp EXCEPT !.pc = Mask16(value)]
set_sp(cp, value) == [cp EXCEPT !.sp = Mask16(value)]
set_a(cp, value) == [cp EXCEPT !.a = Mask8(value)]

\* an F setter that masks to 8 bits like every other register's
set_f_mask8(cp, value) == [cp EXCEPT !.f = Mask8(value)]

set_f(cp, value) == [cp EXCEPT !.f = MaskF0(value)]

\* a B setter that stores the value as given
set_b_unmasked(cp, value) == [cp EXCEPT !.b = value]

set_b(cp, value) == [cp EXCEPT !.b = Mask8(value)]

set_c(cp, value) == [cp EXCEPT !.c = Mask8(value)]
set_d(cp, value) == [cp EXCEPT !.d = Mask8(value)]
set_e(cp, value) == [cp EXCEPT !.e = Mask8(value)]
set_h(cp, value) == [cp EXCEPT !.h = Mask8(value)]
set_l(cp, value) == [cp EXCEPT !.l = Mask8(value)]

\* the 16-bit views: (hi << 8) | lo
af(cp) == BitOr(cp.a * \h100, cp.f)
bc(cp) == BitOr(cp.b * \h100, cp.c)
de(cp) == BitOr(cp.d * \h100, cp.e)
hl(cp) == BitOr(cp.h * \h100, cp.l)

set_af(cp, value0) ==
    LET value == Mask16(value0)
    IN  set_f(set_a(cp, value \div \h100), MaskF0(value))

set_bc(cp, value0) ==
    LET value == Mask16(value0)
    IN  set_c(set_b(cp, value \div \h100), Mask8(value))

set_de(cp, value0) ==
    LET value == Mask16(value0)
    IN  set_e(set_d(cp, value \div \h100), Mask8(value))

set_hl(cp, value0) ==
    LET value == Mask16(value0)
    IN  set_l(set_h(cp, value \div \h100), Mask8(value))

(***************************************************************************)
(* cpu.py: flags. An argument of _set_flags is "None", "True" or "False".  *)
(***************************************************************************)
Bool(p) == IF p THEN "True" ELSE "False"

FlagBit(arg, bit) == IF arg = "True" THEN bit ELSE 0

MaskBit(arg, bit) == IF arg # "None" THEN bit ELSE 0

_set_flags(cp, zero, subtract, half_carry, carry) ==
    LET flags == BitOr(BitOr(FlagBit(zero, \h80), FlagBit(subtract, \h40)),
                       BitOr(FlagBit(half_carry, \h20), FlagBit(carry, \h10)))
        mask  == BitOr(BitOr(MaskBit(zero, \h80), MaskBit(subtract, \h40)),
                       BitOr(MaskBit(half_carry, \h20), MaskBit(carry, \h10)))
        \* self._f & ~mask
        kept  == cp.f - BitAnd(cp.f, mask)
    IN  [cp EXCEPT !.f = BitOr(kept, BitAnd(flags, mask))]

_check_half_carry_sub(x, y) == BitAnd(x, \h0F) < BitAnd(y, \h0F)

_check_half_carry_add(x, y) == (BitAnd(x, \h0F) + BitAnd(y, \h0F)) > \h0F

(***************************************************************************)
(* Execution of one step: x is the machine while a handler runs,           *)
(*   x.cpu, x.mem  the two objects,                                        *)
(*   x.err         the exception raised so far (NoErr: none),              *)
(*   x.bus         the addresses presented to the bus, in order.           *)
(* An exception ends the handler where it is raised: what was assigned     *)
(* before it stays assigned.                                               *)
(***************************************************************************)
Machine(cp, m) == [cpu |-> cp, mem |-> m, err |-> NoErr, bus |-> <<>>]

\* self.memory[address] read by the CPU: [x, val]
Load(x, address) ==
    LET r == read(x.mem, address)
    IN  [x |-> [x EXCEPT !.err = r.err, !.bus = Append(@, <<"read", address>>)],
         val |-> r.val]

\* self.memory[address] = value written by the CPU
Store(x, address, value) ==
    LET r == write(x.mem, address, value)
    IN  [x EXCEPT !.mem = r.val, !.err = r.err, !.bus = Append(@, <<"write", address>>)]

Reg(x, cp) == [x EXCEPT !.cpu = cp]

(***************************************************************************)
(* cpu.py: the instruction handlers. A handler stops at the first bus      *)
(* access that raises.                                                     *)
(***************************************************************************)
\* self.pc += n
add_pc(cp, n) == set_pc(cp, cp.pc + n)

instr_unimplemented(x) ==
    LET r1 == Load(x, x.cpu.pc - 1)
    IN  IF r1.x.err # NoErr THEN r1.x
        ELSE [r1.x EXCEPT !.err = UnimplementedOpcode(r1.val)]

instr_NOP(x) == x

instr_LD_BC_d16(x) ==
    LET r1 == Load(x, x.cpu.pc)
        r2 == Load(Reg(r1.x, set_c(r1.x.cpu, r1.val)), r1.x.cpu.pc + 1)
    IN  IF r1.x.err # NoErr THEN r1.x
        ELSE IF r2.x.err # NoErr THEN r2.x
        ELSE Reg(r2.x, add_pc(set_b(r2.x.cpu, r2.val), 2))

instr_LD_BC_A(x) == Store(x, bc(x.cpu), x.cpu.a)

instr_INC_BC(x) == Reg(x, set_bc(x.cpu, bc(x.cpu) + 1))

instr_INC_B(x) ==
    LET old_value == x.cpu.b
        new == set_b(x.cpu, x.cpu.b + 1)
    IN  Reg(x, _set_flags(new, Bool(new.b = 0), "None",
                          Bool(_check_half_carry_add(old_value, 1)), "None"))

instr_DEC_B(x) ==
    LET old_value == x.cpu.b
        new == set_b(x.cpu, x.cpu.b - 1)
    IN  Reg(x, _set_flags(new, Bool(new.b = 0), "True",
                          Bool(_check_half_carry_sub(old_value, 1)), "None"))

instr_LD_B_d8(x) ==
    LET r1 == Load(x, x.cpu.pc)
    IN  IF r1.x.err # NoErr THEN r1.x
        ELSE Reg(r1.x, add_pc(set_b(r1.x.cpu, r1.val), 1))

instr_RLCA(x) ==
    LET old_value == x.cpu.a
        new == set_a(x.cpu, Mask8(BitOr(x.cpu.a * 2, x.cpu.a \div \h80)))
    IN  Reg(x, _set_flags(new, "False", "False", "False",
                          Bool(BitAnd(old_value, \h80) # 0)))

\* a store of SP with the high byte at the lower address
instr_LD_a16_SP_big_endian(x) ==
    LET r1 == Load(x, x.cpu.pc)
        r2 == Load(r1.x, r1.x.cpu.pc + 1)
        pointer == BitOr(r1.val, r2.val * \h100)
        x3 == Store(r2.x, pointer, BitAnd(r2.x.cpu.sp \div \h100, \h00FF))
        x4 == Store(x3, pointer + 1, BitAnd(x3.cpu.sp, \h00FF))
    IN  IF r1.x.err # NoErr THEN r1.x
        ELSE IF r2.x.err # NoErr THEN r2.x
        ELSE IF x3.err # NoErr THEN x3
        ELSE IF x4.err # NoErr THEN x4
        ELSE Reg(x4, add_pc(x4.cpu, 2))

instr_LD_a16_SP(x) ==
    LET r1 == Load(x, x.cpu.pc)
        r2 == Load(r1.x, r1.x.cpu.pc + 1)
        pointer == BitOr(r1.val, r2.val * \h100)
        x3 == Store(r2.x, pointer, BitAnd(r2.x.cpu.sp, \h00FF))
        x4 == Store(x3, pointer + 1, BitAnd(x3.cpu.sp \div \h100, \h00FF))
    IN  IF r1.x.err # NoErr THEN r1.x
        ELSE IF r2.x.err # NoErr THEN r2.x
        ELSE IF x3.err # NoErr THEN x3
        ELSE IF x4.err # NoErr THEN x4
        ELSE Reg(x4, add_pc(x4.cpu, 2))

\* an ADD HL,BC that clears Z instead of keeping it
instr_ADD_HL_BC_clears_Z(x) ==
    LET old_hl == hl(x.cpu)
        result == old_hl + bc(x.cpu)
        new == set_hl(x.cpu, result)
    IN  Reg(x, _set_flags(new, "False", "False",
                          Bool((BitAnd(old_hl, \h0FFF) + BitAnd(bc(new), \h0FFF)) > \h0FFF),
                          Bool(result > \hFFFF)))

instr_ADD_HL_BC(x) ==
    LET old_hl == hl(x.cpu)
        result == old_hl + bc(x.cpu)
        new == set_hl(x.cpu, result)
    IN  Reg(x, _set_flags(new, "None", "False",
                          Bool((BitAnd(old_hl, \h0FFF) + BitAnd(bc(new), \h0FFF)) > \h0FFF),
                          Bool(result > \hFFFF)))

instr_LD_A_BC(x) ==
    LET r1 == Load(x, bc(x.cpu))
    IN  IF r1.x.err # NoErr THEN r1.x
        ELSE Reg(r1.x, set_a(r1.x.cpu, r1.val))

instr_DEC_BC(x) == Reg(x, set_bc(x.cpu, bc(x.cpu) - 1))

instr_INC_C(x) ==
    LET old_value == x.cpu.c
        new == set_c(x.cpu, x.cpu.c + 1)
    IN  Reg(x, _set_flags(new, Bool(new.c = 0), "False",
                          Bool(_check_half_carry_add(old_value, 1)), "None"))

instr_DEC_C(x) ==
    LET old_value == x.cpu.c
        new == set_c(x.cpu, x.cpu.c - 1)
    IN  Reg(x, _set_flags(new, Bool(new.c = 0), "True",
                          Bool(_check_half_carry_sub(old_value, 1)), "None"))

instr_LD_C_d8(x) ==
    LET r1 == Load(x, x.cpu.pc)
    IN  IF r1.x.err # NoErr THEN r1.x
        ELSE Reg(r1.x, add_pc(set_c(r1.x.cpu, r1.val), 1))

\* a right rotation that does not bring bit 0 round to bit 7
instr_RRCA_shift(x) ==
    LET old_value == x.cpu.a
        new == set_a(x.cpu, Mask8(x.cpu.a \div 2))
    IN  Reg(x, _set_flags(new, "False", "False", "False",
                          Bool(BitAnd(old_value, \h01) # 0)))

instr_RRCA(x) ==
    LET old_value == x.cpu.a
        new == set_a(x.cpu, Mask8(BitOr(x.cpu.a \div 2, x.cpu.a * \h80)))
    IN  Reg(x, _set_flags(new, "False", "False", "False",
                          Bool(BitAnd(old_value, \h01) # 0)))

instr_STOP(x) == Reg(x, add_pc(x.cpu, 1))

instr_LD_DE_d16(x) ==
    LET r1 == Load(x, x.cpu.pc)
        r2 == Load(r1.x, r1.x.cpu.pc + 1)
    IN  IF r1.x.err # NoErr THEN r1.x
        ELSE IF r2.x.err # NoErr THEN r2.x
        ELSE Reg(r2.x, add_pc(set_de(r2.x.cpu, BitOr(r1.val, r2.val * \h100)), 2))

instr_LD_DE_A(x) == Store(x, de(x.cpu), x.cpu.a)

\* an INC DE that sets Z from the result, as the 8-bit increments do
instr_INC_DE_sets_Z(x) ==
    LET new == set_de(x.cpu, de(x.cpu) + 1)
    IN  Reg(x, _set_flags(new, Bool(de(new) = 0), "None", "None", "None"))

instr_INC_DE(x) == Reg(x, set_de(x.cpu, de(x.cpu) + 1))

instr_INC_D(x) ==
    LET old_value == x.cpu.d
        new == set_d(x.cpu, x.cpu.d + 1)
    IN  Reg(x, _set_flags(new, Bool(new.d = 0), "False",
                          Bool(_check_half_carry_add(old_value, 1)), "None"))

instr_DEC_D(x) ==
    LET old_value == x.cpu.d
        new == set_d(x.cpu, x.cpu.d - 1)
    IN  Reg(x, _set_flags(new, Bool(new.d = 0), "True",
                          Bool(_check_half_carry_sub(old_value, 1)), "None"))

instr_LD_D_d8(x) ==
    LET r1 == Load(x, x.cpu.pc)
    IN  IF r1.x.err # NoErr THEN r1.x
        ELSE Reg(r1.x, set_d(r1.x.cpu, r1.val))

instr_RLA(x) ==
    LET old_value == x.cpu.a
        new == set_a(x.cpu, Mask8(BitOr(x.cpu.a * 2, BitAnd(x.cpu.f, \h10) \div \h10)))
    IN  Reg(x, _set_flags(new, "False", "False", "False",
                          Bool(BitAnd(old_value, \h80) > 0)))

\* if s8 >= 0x80: s8 -= 0x100
Signed8(s8) == IF s8 >= \h80 THEN s8 - \h100 ELSE s8

\* a relative jump that takes the displacement byte as unsigned
instr_JR_s8_unsigned(x) ==
    LET r1 == Load(x, x.cpu.pc)
    IN  IF r1.x.err # NoErr THEN r1.x
        ELSE Reg(r1.x, add_pc(add_pc(r1.x.cpu, 1), r1.val))

instr_JR_s8(x) ==
    LET r1 == Load(x, x.cpu.pc)
    IN  IF r1.x.err # NoErr THEN r1.x
        ELSE Reg(r1.x, add_pc(add_pc(r1.x.cpu, 1), Signed8(r1.val)))

instr_ADD_HL_DE(x) ==
    LET old_hl == hl(x.cpu)
        result == old_hl + de(x.cpu)
        new == set_hl(x.cpu, result)
    IN  Reg(x, _set_flags(new, "None", "False",
                          Bool((BitAnd(old_hl, \h0FFF) + BitAnd(de(new), \h0FFF)) > \h0FFF),
                          Bool(result > \hFFFF)))

instr_LD_A_DE(x) ==
    LET r1 == Load(x, de(x.cpu))
    IN  IF r1.x.err # NoErr THEN r1.x
        ELSE Reg(r1.x, set_a(r1.x.cpu, r1.val))

instr_DEC_DE(x) == Reg(x, set_de(x.cpu, de(x.cpu) - 1))

instr_INC_E(x) ==
    LET old_value == x.cpu.e
        new == set_e(x.cpu, x.cpu.e + 1)
    IN  Reg(x, _set_flags(new, Bool(new.e = 0), "False",
                          Bool(_check_half_carry_add(old_value, 1)), "None"))

instr_DEC_E(x) ==
    LET old_value == x.cpu.e
        new == set_e(x.cpu, x.cpu.e - 1)
    IN  Reg(x, _set_flags(new, Bool(new.e = 0), "True",
                          Bool(_check_half_carry_sub(old_value, 1)), "None"))

instr_LD_E_d8(x) ==
    LET r1 == Load(x, x.cpu.pc)
    IN  IF r1.x.err # NoErr THEN r1.x
        ELSE Reg(r1.x, add_pc(set_e(r1.x.cpu, r1.val), 1))

instr_LD_HL_d16(x) ==
    LET r1 == Load(x, x.cpu.pc)
        r2 == Load(r1.x, r1.x.cpu.pc + 1)
    IN  IF r1.x.err # NoErr THEN r1.x
        ELSE IF r2.x.err # NoErr THEN r2.x
        ELSE Reg(r2.x, add_pc(set_hl(r2.x.cpu, BitOr(r1.val, r2.val * \h100)), 2))

instr_LD_B_A(x) == Reg(x, set_b(x.cpu, x.cpu.a))

\* a HALT that does nothing
instr_HALT_as_NOP(x) == x

instr_HALT(x) == Reg(x, [x.cpu EXCEPT !.halted = TRUE])

instr_LD_A_B(x) == Reg(x, set_a(x.cpu, x.cpu.b))

instr_LD_A_d8(x) ==
    LET r1 == Load(x, x.cpu.pc)
    IN  IF r1.x.err # NoErr THEN r1.x
        ELSE Reg(r1.x, add_pc(set_a(r1.x.cpu, r1.val), 1))

instr_JP_d16(x) ==
    LET r1 == Load(x, x.cpu.pc)
        r2 == Load(r1.x, r1.x.cpu.pc + 1)
    IN  IF r1.x.err # NoErr THEN r1.x
        ELSE IF r2.x.err # NoErr THEN r2.x
        ELSE Reg(r2.x, set_pc(r2.x.cpu, BitOr(r1.val, r2.val * \h100)))

(***************************************************************************)
(* cpu.py: the dispatch table and CPU.step.                                *)
(***************************************************************************)
Instruction(name, opcode, length, cycles, handler) ==
    [name |-> name, opcode |-> opcode, length |-> length, cycles |-> cycles,
     handler |-> handler]

Opcodes ==
    {\h00, \h01, \h02, \h03, \h04, \h05, \h06, \h07, \h08, \h09, \h0A, \h0B, \h0C, \h0D, \h0E, \h0F, \h10,
     \h11, \h12, \h13, \h14, \h15, \h16, \h17, \h18, \h19, \h1A, \h1B, \h1C, \h1D, \h1E,
     \h21, \h3E, \h47, \h76, \h78, \hC3}

build_instruction_table(op) ==
    IF op = \h00 THEN Instruction("NOP", \h00, 1, 1, "instr_NOP")
    ELSE IF op = \h01 THEN Instruction("LD BC, d16", \h01, 3, 3, "instr_LD_BC_d16")
    ELSE IF op = \h02 THEN Instruction("LD (BC), A", \h02, 1, 2, "instr_LD_BC_A")
    ELSE IF op = \h03 THEN Instruction("INC BC", \h03, 1, 2, "instr_INC_BC")
    ELSE IF op = \h04 THEN Instruction("INC B", \h04, 1, 1, "instr_INC_B")
    ELSE IF op = \h05 THEN Instruction("DEC B", \h05, 1, 1, "instr_DEC_B")
    ELSE IF op = \h06 THEN Instruction("LD B, d8", \h06, 2, 2, "instr_LD_B_d8")
    ELSE IF op = \h07 THEN Instruction("RLCA", \h07, 1, 1, "instr_RLCA")
    ELSE IF op = \h08 THEN Instruction("LD (a16), SP", \h08, 3, 5, "instr_LD_a16_SP")
    ELSE IF op = \h09 THEN Instruction("ADD HL, BC", \h09, 1, 2, "instr_ADD_HL_BC")
    ELSE IF op = \h0A THEN Instruction("LD A, (BC)", \h0A, 1, 2, "instr_LD_A_BC")
    ELSE IF op = \h0B THEN Instruction("DEC BC", \h0B, 1, 2, "instr_DEC_BC")
    ELSE IF op = \h0C THEN Instruction("INC C", \h0C, 1, 1, "instr_INC_C")
    ELSE IF op = \h0D THEN Instruction("DEC C", \h0D, 1, 1, "instr_DEC_C")
    ELSE IF op = \h0E THEN Instruction("LD C, d8", \h0E, 2, 2, "instr_LD_C_d8")
    ELSE IF op = \h0F THEN Instruction("RRCA", \h0F, 1, 1, "instr_RRCA")
    ELSE IF op = \h10 THEN Instruction("STOP", \h10, 2, 1, "instr_STOP")
    ELSE IF op = \h11 THEN Instruction("LD DE, d16", \h11, 3, 3, "instr_LD_DE_d16")
    ELSE IF op = \h12 THEN Instruction("LD (DE), A", \h12, 1, 2, "instr_LD_DE_A")
    ELSE IF op = \h13 THEN Instruction("INC DE", \h13, 1, 2, "instr_INC_DE")
    ELSE IF op = \h14 THEN Instruction("INC D", \h14, 1, 1, "instr_INC_D")
    ELSE IF op = \h15 THEN Instruction("DEC D", \h15, 1, 1, "instr_DEC_D")
    ELSE IF op = \h16 THEN Instruction("LD D, d8", \h16, 2, 2, "instr_LD_D_d8")
    ELSE IF op = \h17 THEN Instruction("RLA", \h17, 1, 1, "instr_RLA")
    ELSE IF op = \h18 THEN Instruction("JR s8", \h18, 2, 3, "instr_JR_s8")
    ELSE IF op = \h19 THEN Instruction("ADD HL, DE", \h19, 1, 2, "instr_ADD_HL_DE")
    ELSE IF op = \h1A THEN Instruction("LD A, (DE)", \h1A, 1, 2, "instr_LD_A_DE")
    ELSE IF op = \h1B THEN Instruction("DEC DE", \h1B, 1, 2, "instr_DEC_DE")
    ELSE IF op = \h1C THEN Instruction("INC E", \h1C, 1, 1, "instr_INC_E")
    ELSE IF op = \h1D THEN Instruction("DEC E", \h1D, 1, 1, "instr_DEC_E")
    ELSE IF op = \h1E THEN Instruction("LD E, d8", \h1E, 2, 2, "instr_LD_E_d8")
    ELSE IF op = \h21 THEN Instruction("LD HL, d16", \h21, 3, 3, "instr_LD_HL_d16")
    ELSE IF op = \h3E THEN Instruction("LD A, d8", \h3E, 2, 2, "instr_LD_A_d8")
    ELSE IF op = \h47 THEN Instruction("LD B, A", \h47, 1, 1, "instr_LD_B_A")
    ELSE IF op = \h76 THEN Instruction("HALT", \h76, 1, 1, "instr_HALT")
    ELSE IF op = \h78 THEN Instruction("LD A, B", \h78, 1, 1, "instr_LD_A_B")
    ELSE IF op = \hC3 THEN Instruction("JP d16", \hC3, 3, 4, "instr_JP_d16")
    ELSE Instruction("not implemented", 0, 0, 0, "instr_unimplemented")

instructions == [op \in Opcodes |-> build_instruction_table(op)]

\* instruction.handler()
Call(handler, x) ==
    CASE handler = "instr_NOP" -> instr_NOP(x)
      [] handler = "instr_LD_BC_d16" -> instr_LD_BC_d16(x)
      [] handler = "instr_LD_BC_A" -> instr_LD_BC_A(x)
      [] handler = "instr_INC_BC" -> instr_INC_BC(x)
      [] handler = "instr_INC_B" -> instr_INC_B(x)
      [] handler = "instr_DEC_B" -> instr_DEC_B(x)
      [] handler = "instr_LD_B_d8" -> instr_LD_B_d8(x)
      [] handler = "instr_RLCA" -> instr_RLCA(x)
      [] handler = "instr_LD_a16_SP" -> instr_LD_a16_SP(x)
      [] handler = "instr_ADD_HL_BC" -> instr_ADD_HL_BC(x)
      [] handler = "instr_LD_A_BC" -> instr_LD_A_BC(x)
      [] handler = "instr_DEC_BC" -> instr_DEC_BC(x)
      [] handler = "instr_INC_C" -> instr_INC_C(x)
      [] handler = "instr_DEC_C" -> instr_DEC_C(x)
      [] handler = "instr_LD_C_d8" -> instr_LD_C_d8(x)
      [] handler = "instr_RRCA" -> instr_RRCA(x)
      [] handler = "instr_STOP" -> instr_STOP(x)
      [] handler = "instr_LD_DE_d16" -> instr_LD_DE_d16(x)
      [] handler = "instr_LD_DE_A" -> instr_LD_DE_A(x)
      [] handler = "instr_INC_DE" -> instr_INC_DE(x)
      [] handler = "instr_INC_D" -> instr_INC_D(x)
      [] handler = "instr_DEC_D" -> instr_DEC_D(x)
      [] handler = "instr_LD_D_d8" -> instr_LD_D_d8(x)
      [] handler = "instr_RLA" -> instr_RLA(x)
      [] handler = "instr_JR_s8" -> instr_JR_s8(x)
      [] handler = "instr_ADD_HL_DE" -> instr_ADD_HL_DE(x)
      [] handler = "instr_LD_A_DE" -> instr_LD_A_DE(x)
      [] handler = "instr_DEC_DE" -> instr_DEC_DE(x)
      [] handler = "instr_INC_E" -> instr_INC_E(x)
      [] handler = "instr_DEC_E" -> instr_DEC_E(x)
      [] handler = "instr_LD_E_d8" -> instr_LD_E_d8(x)
      [] handler = "instr_LD_HL_d16" -> instr_LD_HL_d16(x)
      [] handler = "instr_LD_A_d8" -> instr_LD_A_d8(x)
      [] handler = "instr_LD_B_A" -> instr_LD_B_A(x)
      [] handler = "instr_HALT" -> instr_HALT(x)
      [] handler = "instr_LD_A_B" -> instr_LD_A_B(x)
      [] handler = "instr_JP_d16" -> instr_JP_d16(x)
      [] OTHER -> instr_unimplemented(x)

\* self.instructions.get(opcode, Instruction("not implemented", ...))
lookup(opcode) ==
    IF opcode \in DOMAIN instructions THEN instructions[opcode]
    ELSE Instruction("not implemented", 0, 0, 0, "instr_unimplemented")

\* self.pc += 1; self.pc &= 0xFFFF
fetch_pc(cp) == set_pc(add_pc(cp, 1), BitAnd(add_pc(cp, 1).pc, \hFFFF))

\* what step hands back once the handler has run on x: `return cycles`, or the
\* handler's exception
Returned(x, cycles, opcode) ==
    [x |-> x, ret |-> IF x.err = NoErr THEN cycles ELSE -1, opcode |-> opcode]

\* CPU.step: [x, ret, opcode]; ret is the value returned, -1 when it raised;
\* opcode is the byte fetched, -1 when none was
step(cp, m) ==
    IF cp.halted THEN [x |-> Machine(cp, m), ret |-> 0, opcode |-> -1]
    ELSE
        LET r1 == Load(Machine(cp, m), cp.pc)
        IN  IF r1.x.err # NoErr THEN [x |-> r1.x, ret |-> -1, opcode |-> -1]
            ELSE Returned(Call(lookup(r1.val).handler, Reg(r1.x, fetch_pc(r1.x.cpu))),
                          lookup(r1.val).cycles, r1.val)

(***************************************************************************)
(* test.py: the harness that builds a CPU over a ROM holding a program.    *)
(***************************************************************************)
\* rom = bytearray(0x7FFF); rom[start_addr + i] = instruction
setup_cpu_with_instructions(program, start_addr) ==
    [len |-> \h7FFF,
     data |-> [j \in {start_addr + i - 1 : i \in {k \in 1..Len(program) : program[k] # 0}}
                 |-> program[j - start_addr + 1]]]

\* the programs the model runs, each placed at 0x0100
Programs ==
    { <<\h05, \h04, \h0C, \h0D>>,                      \* DEC B; INC B; INC C; DEC C
      <<\h14, \h15, \h1C, \h1D>>,                      \* INC D; DEC D; INC E; DEC E
      <<\h06, \hFF, \h04, \h05, \h04>>,                \* LD B,FF; INC B; DEC B; INC B
      <<\h0E, \h0F, \h0C, \h1E, \hFF, \h1C>>,          \* LD C,0F; INC C; LD E,FF; INC E
      <<\h16, \h14, \h00, \h76>>,                      \* LD D,14; NOP; HALT
      <<\h76, \h04>>,                                  \* HALT; INC B
      <<\h01, \h00, \h80, \h21, \h00, \hC0, \h09, \h19>>, \* LD BC,8000; LD HL,C000; ADD HL,BC; ADD HL,DE
      <<\h21, \hFF, \h0F, \h11, \h01, \h00, \h19, \h09>>, \* LD HL,0FFF; LD DE,0001; ADD HL,DE; ADD HL,BC
      <<\h09, \h19, \h09>>,                            \* ADD HL,BC; ADD HL,DE; ADD HL,BC
      <<\h3E, \h85, \h07, \h0F, \h17>>,                \* LD A,85; RLCA; RRCA; RLA
      <<\h0F, \h07, \h17, \h17>>,                      \* RRCA; RLCA; RLA; RLA
      <<\h08, \h00, \hC0, \h01, \h00, \hC0, \h0A>>,    \* LD (C000),SP; LD BC,C000; LD A,(BC)
      <<\h08, \h9F, \hFE>>,                            \* LD (FE9F),SP
      <<\h08, \hFF, \hFD, \h08, \hFE, \hFF>>,          \* LD (FDFF),SP; LD (FFFE),SP
      <<\h11, \hFF, \hFF, \h13, \h1B, \h12>>,          \* LD DE,FFFF; INC DE; DEC DE; LD (DE),A
      <<\h0B, \h03, \h02, \h0A>>,                      \* DEC BC; INC BC; LD (BC),A; LD A,(BC)
      <<\h18, \hFE>>,                                  \* JR -2
      <<\h18, \h02, \h00, \h00, \h18, \h80>>,          \* JR +2; JR -128
      <<\h18, \h7F>>,                                  \* JR +127
      <<\h3E, \h18, \h02, \hC3, \hFE, \hFF>>,          \* LD A,18; LD (BC),A; JP FFFE
      <<\h02, \hC3, \hFE, \hFF>>,                      \* LD (BC),A; JP FFFE
      <<\h08, \hFF, \hFF>>,                            \* LD (FFFF),SP
      <<\hC3, \hFF, \hFF>>,                            \* JP FFFF
      <<\h10, \h00, \h47, \h78, \h1A>>,                \* STOP; LD B,A; LD A,B; LD A,(DE)
      <<\h12, \hD3>>,                                  \* LD (DE),A; an opcode with no handler
      <<\hFF>> }                                       \* an opcode with no handler

\* a program placed at 0x0000: JR -128 there, and JP 0000 at the entry point
LowProgram ==
    [i \in 1..\h0103 |-> IF i = 1 THEN \h18 ELSE IF i = 2 THEN \h80
                         ELSE IF i = \h0101 THEN \hC3 ELSE \h00]

\* <<program, start_addr>>: the arguments of setup_cpu_with_instructions
Placements == {<<prog, \h0100>> : prog \in Programs} \cup {<<LowProgram, \h0000>>}

\* the rotation pairs, after LD B,A has kept the original A in B
RotPrograms ==
    { <<\h47, \h07, \h0F>>,                            \* LD B,A; RLCA; RRCA
      <<\h47, \h0F, \h07>> }                           \* LD B,A; RRCA; RLCA

\* the register writes the harness makes: <<register, value>>
Sets ==
    { <<"a", \h180>>, <<"f", \hFF>>, <<"f", \h1F>>, <<"af", \h12FF>>,
      <<"b", \hFF>>, <<"c", \h10F>>, <<"d", \h0F>>, <<"e", -1>>,
      <<"h", \h100>>, <<"l", \hFF>>,
      <<"bc", \hFFFE>>, <<"de", \hC000>>, <<"hl", \h1FFFF>>,
      <<"sp", \h1234>>, <<"sp", -2>>, <<"pc", \hFFFF>>, <<"pc", \h10100>> }

\* cpu.<reg> = value
setter(cp, reg, value) ==
    CASE reg = "a" -> set_a(cp, value)
      [] reg = "f" -> set_f(cp, value)
      [] reg = "b" -> set_b(cp, value)
      [] reg = "c" -> set_c(cp, value)
      [] reg = "d" -> set_d(cp, value)
      [] reg = "e" -> set_e(cp, value)
      [] reg = "h" -> set_h(cp, value)
      [] reg = "l" -> set_l(cp, value)
      [] reg = "af" -> set_af(cp, value)
      [] reg = "bc" -> set_bc(cp, value)
      [] reg = "de" -> set_de(cp, value)
      [] reg = "hl" -> set_hl(cp, value)
      [] reg = "sp" -> set_sp(cp, value)
      [] reg = "pc" -> set_pc(cp, value)

(***************************************************************************)
(* The ROM blobs and the addresses and values of the bus specification.    *)
(***************************************************************************)
\* a blob of `len` bytes, all zero but the mapper-type byte and one marker
\* byte per 16 KiB bank (the bank's number plus 0xA0, at the bank's start)
Blob(len, mbc_type) ==
    [len |-> len,
     data |-> [j \in {i \in {\h0147} : mbc_type # 0} \cup {k * \h4000 : k \in 0..((len - 1) \div \h4000)}
                 |-> IF j = \h0147 THEN mbc_type ELSE \hA0 + j \div \h4000]]

BusROMs ==
    { setup_cpu_with_instructions(<<>>, \h0100),   \* test_memory_regions: bytearray(0x7FFF)
      Blob(\h10000, \h01),                         \* MBC1, four banks
      Blob(\h8000, \h02),                          \* MBC1 + RAM, two banks
      Blob(\h8000, \h03),                          \* MBC1 + RAM + battery, two banks
      Blob(\h8000, \h04),                          \* mappers that are not supported
      Blob(\h8000, \h05),
      Blob(\h8000, \hFF) }

BusAddrs ==
    { -1, \h0000, \h1FFF, \h2000, \h3FFF, \h4000, \h7FFF, \h8000, \hA000, \hC000, \hDDFF, \hDE00, \hE000,
      \hFDFF, \hFE00, \hFE9F, \hFEA0, \hFEFF, \hFF00, \hFF7F, \hFF80, \hFFFE, \hFFFF,
      \h10000, \hFFFFF }

BusVals == { \h00, \h120, \h183, \h1FF }

(***************************************************************************)
(* The state machine.                                                      *)
(***************************************************************************)
NoObject == [kind |-> "none"]

Call0 == [op |-> "init", reg |-> "", address |-> 0, value |-> 0, pc0 |-> 0,
          opcode |-> -1, ret |-> -1, err |-> NoErr, bus |-> <<>>]

Budget0 == [steps |-> 0, sets |-> 0, bus |-> 0]

\* CPU(Memory(rom))
Construct(rom) ==
    LET mbc == detect_mbc(rom)
    IN  IF mbc.err # NoErr
        THEN /\ memory = NoObject
             /\ cpu = NoObject
             /\ last = [Call0 EXCEPT !.err = mbc.err]
        ELSE /\ memory = Memory_init(mbc.val)
             /\ cpu = CPU_init
             /\ last = Call0

Constructed == memory # NoObject

Init ==
    /\ \E pl \in Placements : Construct(setup_cpu_with_instructions(pl[1], pl[2]))
    /\ budget = Budget0

InitBus ==
    /\ \E rom \in BusROMs : Construct(rom)
    /\ budget = Budget0

\* a rotation program with AF written before the first step, as test_rlca
\* writes A: every value of A, every state of the four flags
InitRot ==
    /\ \E prog \in RotPrograms, a \in 0..\hFF, flags \in 0..\h0F :
          /\ memory = Memory_init(detect_mbc(setup_cpu_with_instructions(prog, \h0100)).val)
          /\ cpu = set_af(CPU_init, a * \h100 + flags * \h10)
          /\ last = [Call0 EXCEPT !.op = "set", !.reg = "af",
                                  !.value = a * \h100 + flags * \h10]
    /\ budget = Budget0

\* cpu.step()
Step ==
    /\ Constructed
    /\ budget.steps < MaxSteps
    /\ \E r \in {step(cpu, memory)} :
          /\ cpu' = r.x.cpu
          /\ memory' = r.x.mem
          /\ last' = [Call0 EXCEPT !.op = "step", !.pc0 = cpu.pc, !.opcode = r.opcode,
                                   !.ret = r.ret, !.err = r.x.err, !.bus = r.x.bus]
    /\ budget' = [budget EXCEPT !.steps = @ + 1]

\* cpu.<reg> = value
SetReg ==
    /\ Constructed
    /\ budget.sets < MaxSets
    /\ \E s \in Sets :
          /\ cpu' = setter(cpu, s[1], s[2])
          /\ last' = [Call0 EXCEPT !.op = "set", !.reg = s[1], !.value = s[2]]
    /\ budget' = [budget EXCEPT !.sets = @ + 1]
    /\ UNCHANGED memory

\* memory.read(address)
BusRead ==
    /\ Constructed
    /\ budget.bus < MaxBusOps
    /\ \E address \in BusAddrs :
          LET r == read(memory, address)
          IN  last' = [Call0 EXCEPT !.op = "read", !.address = address,
                                    !.ret = r.val, !.err = r.err]
    /\ budget' = [budget EXCEPT !.bus = @ + 1]
    /\ UNCHANGED <<cpu, memory>>

\* memory.write(address, value)
BusWrite ==
    /\ Constructed
    /\ budget.bus < MaxBusOps
    /\ \E address \in BusAddrs, value \in BusVals :
          LET r == write(memory, address, value)
          IN  /\ memory' = r.val
              /\ last' = [Call0 EXCEPT !.op = "write", !.address = address,
                                       !.value = value, !.err = r.err]
    /\ budget' = [budget EXCEPT !.bus = @ + 1]
    /\ UNCHANGED cpu

Next == Step \/ SetReg

NextBus == BusRead \/ BusWrite

\* the CPU driven by step calls and register writes
Spec == Init /\ [][Next]_vars

\* the bus driven by reads and writes
SpecBus == InitBus /\ [][NextBus]_vars

NextRot == Step

\* the rotation programs run from every A and every flag state
SpecRot == InitRot /\ [][NextRot]_vars

(***************************************************************************)
(* Vocabulary of the properties.                                           *)
(***************************************************************************)
Byte == 0..\hFF
Word == 0..\hFFFF

FlagZ(cp) == BitAnd(cp.f, \h80) # 0
FlagN(cp) == BitAnd(cp.f, \h40) # 0
FlagH(cp) == BitAnd(cp.f, \h20) # 0
FlagC(cp) == BitAnd(cp.f, \h10) # 0

\* the step just made fetched `opcode` and returned normally
Stepped(opcode) == last.op = "step" /\ last.err = NoErr /\ last.opcode = opcode

\* the addresses the read table maps to storage a write can change
Writable ==
    (\h8000..\hFE9F) \cup (\hFF00..\hFF7F) \cup (\hFF80..\hFFFE) \cup {\hFFFF}

\* the addresses backed by a RAM buffer: VRAM, external RAM, work RAM and its
\* echo, OAM, the I/O page and HRAM
WritableRAM == (\h8000..\hFE9F) \cup (\hFF00..\hFFFE)

(***************************************************************************)
(* C1: in every state reachable by step calls and register writes          *)
(* (F := v and AF := v for any v included) the low nibble of F is zero.    *)
(***************************************************************************)
C1_FLowNibbleZero == BitAnd(cpu.f, \h0F) = 0

\* F was just written with a value whose low nibble is not zero, after a step
\* that had set flags
C1_Witness ==
    /\ last.op = "set" /\ last.reg = "f" /\ last.value = \h1F
    /\ budget.steps > 0
    /\ cpu.f = \h10

(***************************************************************************)
(* C2: A, B, C, D, E, H, L, F stay in 0x00..0xFF and SP, PC in             *)
(* 0x0000..0xFFFF; increments and decrements past either end wrap: DEC BC  *)
(* on 0x0000 gives 0xFFFF, INC BC / INC DE on 0xFFFF give 0x0000, DEC DE   *)
(* on 0x0000 gives 0xFFFF, and PC advancing from 0xFFFF gives 0x0000.      *)
(***************************************************************************)
C2_RegistersInRange ==
    /\ [](/\ cpu.a \in Byte /\ cpu.f \in Byte /\ cpu.b \in Byte /\ cpu.c \in Byte
          /\ cpu.d \in Byte /\ cpu.e \in Byte /\ cpu.h \in Byte /\ cpu.l \in Byte
          /\ cpu.sp \in Word /\ cpu.pc \in Word)
    /\ [][/\ Stepped(\h0B)' => bc(cpu') = (IF bc(cpu) = 0 THEN \hFFFF ELSE bc(cpu) - 1)
          /\ Stepped(\h03)' => bc(cpu') = (IF bc(cpu) = \hFFFF THEN 0 ELSE bc(cpu) + 1)
          /\ Stepped(\h1B)' => de(cpu') = (IF de(cpu) = 0 THEN \hFFFF ELSE de(cpu) - 1)
          /\ Stepped(\h13)' => de(cpu') = (IF de(cpu) = \hFFFF THEN 0 ELSE de(cpu) + 1)
          /\ (Stepped(\h00)' /\ cpu.pc = \hFFFF) => cpu'.pc = 0
          /\ Stepped(\h04)' => cpu'.b = (IF cpu.b = \hFF THEN 0 ELSE cpu.b + 1)
          /\ Stepped(\h05)' => cpu'.b = (IF cpu.b = 0 THEN \hFF ELSE cpu.b - 1)]_vars

\* DEC BC has just taken BC from 0x0000 to 0xFFFF
C2_Witness == Stepped(\h0B) /\ bc(cpu) = \hFFFF /\ budget.sets = 0 /\ budget.steps = 1

(***************************************************************************)
(* C3: a step that executes HALT (0x76) leaves the CPU halted; from then   *)
(* on every step call returns 0, presents no address to the bus and        *)
(* changes no register, no flag, not PC, SP or the HALT flag and no        *)
(* memory; nothing takes the CPU from halted back to running.              *)
(***************************************************************************)
C3_HaltIsFinal ==
    /\ [][Stepped(\h76)' => cpu'.halted]_vars
    /\ [][(cpu.halted /\ last'.op = "step")
            => (/\ last'.ret = 0 /\ last'.err = NoErr /\ last'.bus = <<>>
                /\ cpu' = cpu /\ memory' = memory)]_vars
    /\ [][cpu.halted => cpu'.halted]_vars

\* a step call made on a halted CPU
C3_Witness ==
    /\ cpu.halted /\ last.op = "step" /\ last.opcode = -1 /\ last.ret = 0
    /\ budget.steps >= 2

(***************************************************************************)
(* C4: a running CPU that fetches a byte with no entry in the dispatch     *)
(* table fails with UnimplementedOpcode, and the error carries the opcode  *)
(* byte and the PC it was fetched at.                                      *)
(***************************************************************************)
C4_UnimplementedCarriesOpcodeAndPC ==
    (last.op = "step" /\ last.opcode # -1 /\ last.opcode \notin DOMAIN instructions)
        => /\ last.err.kind = "UnimplementedOpcode"
           /\ last.err.opcode = last.opcode
           /\ "pc" \in DOMAIN last.err
           /\ last.err.pc = last.pc0

(***************************************************************************)
(* C5: a successful step of any implemented opcode other than JR s8 and    *)
(* JP d16 leaves PC = (PC before + the instruction's declared length)      *)
(* mod 2^16; LD D,d8 has loaded D from the byte after the opcode.          *)
(***************************************************************************)
C5_PCAdvancesByLength ==
    (last.op = "step" /\ last.err = NoErr
        /\ last.opcode \in (DOMAIN instructions) \ {\h18, \hC3})
        => /\ cpu.pc = (last.pc0 + instructions[last.opcode].length) % \h10000
           /\ last.opcode = \h16 => read(memory, (last.pc0 + 1) % \h10000) = Ok(cpu.d)

(***************************************************************************)
(* C6: a write of v at any address the read table maps to writable storage *)
(* succeeds, and a read of that address right after it returns v & 0xFF.   *)
(***************************************************************************)
C6_WriteThenRead ==
    (last.op = "write" /\ last.address \in Writable)
        => /\ last.err = NoErr
           /\ read(memory, last.address) = Ok(last.value % \h100)

(***************************************************************************)
(* C7: a write of v at a in 0xE000..0xFDFF is read back as v & 0xFF at     *)
(* a - 0x2000, a write at a - 0x2000 is read back at a, and echo RAM and   *)
(* work RAM 0xC000..0xDDFF read the same after any writes.                 *)
(***************************************************************************)
C7_EchoMirrorsWorkRAM ==
    Constructed =>
        /\ (last.op = "write" /\ last.address \in \hE000..\hFDFF)
              => /\ last.err = NoErr
                 /\ read(memory, last.address - \h2000) = Ok(last.value % \h100)
        /\ (last.op = "write" /\ last.address \in \hC000..\hDDFF)
              => /\ last.err = NoErr
                 /\ read(memory, last.address + \h2000) = Ok(last.value % \h100)
        /\ \A a \in BusAddrs \cap (\hE000..\hFDFF) :
              read(memory, a) = Ok(Get(memory.wram, a - \hE000))

\* a non-zero byte written at the top of echo RAM is read at 0xDDFF
C7_Witness ==
    /\ last.op = "write" /\ last.address = \hFDFF /\ last.value = \h183
    /\ Get(memory.wram, \h1DFF) = \h83

(***************************************************************************)
(* C8: a write at any address in 0xFEA0..0xFEFF fails with ProhibitedWrite *)
(* and changes no byte of the bus; a read there returns 0x00 whatever was  *)
(* done on the bus before.                                                 *)
(***************************************************************************)
C8_ProhibitedArea ==
    /\ [][(last'.op = "write" /\ last'.address \in \hFEA0..\hFEFF)
            => (last'.err = [kind |-> "ProhibitedWrite", address |-> last'.address]
                /\ memory' = memory)]_vars
    /\ [](Constructed =>
            /\ \A a \in BusAddrs \cap (\hFEA0..\hFEFF) : read(memory, a) = Ok(0)
            /\ (last.op = "read" /\ last.address \in \hFEA0..\hFEFF)
                  => (last.err = NoErr /\ last.ret = 0))

\* a write to the prohibited area refused after an earlier write went through
C8_Witness ==
    /\ last.op = "write" /\ last.address = \hFEFF /\ last.value = \h1FF
    /\ last.err.kind = "ProhibitedWrite"
    /\ memory.oam # Zeros

(***************************************************************************)
(* C9: a read or a write at an address outside 0x0000..0xFFFF fails with   *)
(* InvalidAddress and changes nothing on the bus.                          *)
(***************************************************************************)
C9_OutOfRangeAddress ==
    [][(last'.op \in {"read", "write"} /\ last'.address \notin Word)
         => (last'.err = [kind |-> "InvalidAddress", address |-> last'.address]
             /\ memory' = memory)]_vars

\* a write below the address space refused after an earlier write went through
C9_Witness ==
    /\ last.op = "write" /\ last.address = -1
    /\ last.err.kind = "InvalidAddress"
    /\ memory.hram # Zeros

(***************************************************************************)
(* C10: each of INC r / DEC r (04 05 0C 0D 14 15 1C 1D), from any flags:   *)
(* C is unchanged, Z is set iff the 8-bit result is zero, H is the         *)
(* half-carry of old + 1 (INC) or the half-borrow of old - 1 (DEC), and N  *)
(* is 0 after INC and 1 after DEC.                                         *)
(***************************************************************************)
IncDec8(old, new, isInc) ==
    /\ new = (IF isInc THEN old + 1 ELSE old - 1) % \h100
    /\ FlagC(cpu') = FlagC(cpu)
    /\ FlagZ(cpu') = (new = 0)
    /\ FlagH(cpu') = (IF isInc THEN (old % \h10) + 1 > \h0F ELSE (old % \h10) < 1)
    /\ FlagN(cpu') = ~isInc

C10_IncDecFlags ==
    [][/\ Stepped(\h04)' => IncDec8(cpu.b, cpu'.b, TRUE)
       /\ Stepped(\h05)' => IncDec8(cpu.b, cpu'.b, FALSE)
       /\ Stepped(\h0C)' => IncDec8(cpu.c, cpu'.c, TRUE)
       /\ Stepped(\h0D)' => IncDec8(cpu.c, cpu'.c, FALSE)
       /\ Stepped(\h14)' => IncDec8(cpu.d, cpu'.d, TRUE)
       /\ Stepped(\h15)' => IncDec8(cpu.d, cpu'.d, FALSE)
       /\ Stepped(\h1C)' => IncDec8(cpu.e, cpu'.e, TRUE)
       /\ Stepped(\h1D)' => IncDec8(cpu.e, cpu'.e, FALSE)]_vars

(***************************************************************************)
(* C11: under MBC1 the selected ROM bank is in 1..31 in every state        *)
(* reachable by bus writes; a write of v at an address in 0x2000..0x3FFF   *)
(* sets the bank to v & 0x1F, except that a result of 0 becomes 1.         *)
(***************************************************************************)
C11_BankInRange ==
    /\ [](Constructed => (memory.mbc.kind = "MBC1" => memory.mbc.rom_bank \in 1..31))
    /\ [][(last'.op = "write" /\ last'.address \in \h2000..\h3FFF
                /\ memory.mbc.kind = "MBC1")
            => (/\ last'.err = NoErr
                /\ memory'.mbc.rom_bank =
                      (IF last'.value % \h20 = 0 THEN 1 ELSE last'.value % \h20))]_vars

\* bank 31 selected by a write of 0x1FF at the top of the bank-select range
C11_Witness ==
    /\ last.op = "write" /\ last.address = \h3FFF /\ last.value = \h1FF
    /\ memory.mbc.kind = "MBC1" /\ memory.mbc.rom_bank = 31

(***************************************************************************)
(* C12: construction selects the mapper from ROM byte 0x0147 alone: 0x00   *)
(* gives NoMBC, 0x01, 0x02 and 0x03 give MBC1 with bank 1 selected, and    *)
(* every other value makes construction fail with UnsupportedMapper, so    *)
(* that no bus (and no CPU) exists.                                        *)
(***************************************************************************)
C12_MapperFromHeaderByte ==
    /\ Constructed =>
          /\ Get(memory.mbc.rom.data, \h0147) \in {0, 1, 2, 3}
          /\ memory.mbc.kind = (IF Get(memory.mbc.rom.data, \h0147) = 0 THEN "NoMBC" ELSE "MBC1")
          /\ (last.op = "init" /\ memory.mbc.kind = "MBC1") => memory.mbc.rom_bank = 1
    /\ ~Constructed =>
          /\ last.op = "init" /\ cpu = NoObject
          /\ last.err.kind = "UnsupportedMapper"
          /\ last.err.mbc_type \notin {0, 1, 2, 3}

\* construction over a ROM whose byte 0x0147 is 0x04 has failed
C12_Witness ==
    /\ ~Constructed
    /\ last.err = [kind |-> "UnsupportedMapper", mbc_type |-> \h04]

(***************************************************************************)
(* C13: from every PC from which the opcode and its operand can be fetched *)
(* and for every displacement byte (a byte >= 0x80 means byte - 0x100),    *)
(* PC after JR s8 (0x18) is (PC before + 2 + s) mod 2^16; no register, no  *)
(* flag and no memory byte other than PC changes.                          *)
(***************************************************************************)
C13_JRTarget ==
    [][Stepped(\h18)' =>
          \E byte \in Byte :
             /\ read(memory, (cpu.pc + 1) % \h10000) = Ok(byte)
             /\ cpu' = [cpu EXCEPT !.pc = (cpu.pc + 2
                                            + (IF byte >= \h80 THEN byte - \h100 ELSE byte))
                                           % \h10000]
             /\ memory' = memory]_vars

\* JR -128 executed at 0x0000 has wrapped PC below zero to 0xFF82
C13_Witness == Stepped(\h18) /\ last.pc0 = \h0000 /\ cpu.pc = \hFF82

(***************************************************************************)
(* C14: ADD HL,BC (0x09) and ADD HL,DE (0x19), for any HL and operand rr:  *)
(* HL becomes (HL + rr) mod 2^16, N = 0, H = ((HL & 0x0FFF) + (rr &        *)
(* 0x0FFF) > 0x0FFF), C = (HL + rr > 0xFFFF), Z keeps its prior value and  *)
(* rr is unchanged.                                                        *)
(***************************************************************************)
AddHL(rr_old, rr_new) ==
    /\ hl(cpu') = (hl(cpu) + rr_old) % \h10000
    /\ ~FlagN(cpu')
    /\ FlagH(cpu') = ((hl(cpu) % \h1000) + (rr_old % \h1000) > \h0FFF)
    /\ FlagC(cpu') = (hl(cpu) + rr_old > \hFFFF)
    /\ FlagZ(cpu') = FlagZ(cpu)
    /\ rr_new = rr_old

C14_AddHLFlags ==
    [][/\ Stepped(\h09)' => AddHL(bc(cpu), bc(cpu'))
       /\ Stepped(\h19)' => AddHL(de(cpu), de(cpu'))]_vars

\* ADD HL,BC of 0xC000 + 0x8000 made with every flag set beforehand: Z is
\* kept, N and H are cleared, C is set
C14_Witness == Stepped(\h09) /\ hl(cpu) = \h4000 /\ bc(cpu) = \h8000 /\ cpu.f = \h90

(***************************************************************************)
(* C15: for every A and every prior flag state, RLCA (0x07) then RRCA      *)
(* (0x0F), or RRCA then RLCA, leaves A equal to its original value; after  *)
(* each of the two instructions Z = N = H = 0 and C is the bit rotated out *)
(* (old bit 7 for RLCA, old bit 0 for RRCA).                               *)
(***************************************************************************)
C15_RotateRoundTrip ==
    /\ [][/\ Stepped(\h07)' => cpu'.f = (IF cpu.a >= \h80 THEN \h10 ELSE \h00)
          /\ Stepped(\h0F)' => cpu'.f = (IF cpu.a % 2 = 1 THEN \h10 ELSE \h00)]_vars
    /\ []((/\ last.op = "step" /\ last.pc0 = \h0102 /\ budget.steps = 3
            /\ read(memory, \h0100) = Ok(\h47)
            /\ <<read(memory, \h0101).val, read(memory, \h0102).val>>
                  \in {<<\h07, \h0F>>, <<\h0F, \h07>>})
           => (last.err = NoErr /\ cpu.a = cpu.b))

\* RLCA then RRCA have run on A = 0x85: A is 0x85 again and C holds bit 0
\* of the rotated value
C15_Witness ==
    /\ Stepped(\h0F) /\ last.pc0 = \h0102 /\ budget.steps = 3
    /\ cpu.a = \h85 /\ cpu.b = \h85 /\ cpu.f = \h10

(***************************************************************************)
(* C16: LD (a16),SP (0x08): with p = mem[PC+1] | mem[PC+2] << 8 and p and  *)
(* p + 1 both in writable RAM, the step succeeds and leaves mem[p] = SP &  *)
(* 0xFF, mem[p+1] = SP >> 8, PC = PC before + 3 (16 bits), and SP, every   *)
(* other register and the flags unchanged.                                 *)
(***************************************************************************)
StoredSP(p) ==
    (p \in WritableRAM /\ p + 1 \in WritableRAM)
        => /\ last'.err = NoErr
           /\ read(memory', p) = Ok(cpu.sp % \h100)
           /\ read(memory', p + 1) = Ok(cpu.sp \div \h100)
           /\ cpu' = [cpu EXCEPT !.pc = (cpu.pc + 3) % \h10000]

C16_StoreSP ==
    [][(/\ last'.op = "step" /\ last'.opcode = \h08
        /\ cpu.pc + 2 <= \hFFFF
        /\ read(memory, cpu.pc + 1).err = NoErr
        /\ read(memory, cpu.pc + 2).err = NoErr)
       => StoredSP(read(memory, cpu.pc + 1).val + read(memory, cpu.pc + 2).val * \h100)]_vars

\* LD (0xC000),SP executed with SP = 0x1234
C16_Witness ==
    /\ Stepped(\h08) /\ last.pc0 = \h0100 /\ cpu.pc = \h0103 /\ cpu.sp = \h1234
    /\ read(memory, \hC000) = Ok(\h34) /\ read(memory, \hC001) = Ok(\h12)

(***************************************************************************)
(* C17: every opcode whose table row names no flag (NOP, STOP, HALT, all   *)
(* LD forms, INC/DEC of BC and DE, JR, JP) leaves F exactly as it was      *)
(* before the step, from any prior flag state; NOP additionally leaves     *)
(* every register, SP, the HALT flag and all memory unchanged, changing PC *)
(* only.                                                                   *)
(***************************************************************************)
Flagless ==
    { \h00, \h10, \h76,                                       \* NOP, STOP, HALT
      \h01, \h11, \h21, \h06, \h0E, \h16, \h1E, \h3E,          \* LD rr,d16; LD r,d8
      \h02, \h12, \h0A, \h1A, \h08, \h47, \h78,                \* LD (rr),A; LD A,(rr); LD (a16),SP; LD r,r
      \h03, \h0B, \h13, \h1B,                                 \* INC/DEC BC, DE
      \h18, \hC3 }                                             \* JR, JP

C17_FlaglessKeepF ==
    [][/\ (last'.op = "step" /\ last'.opcode \in Flagless) => cpu'.f = cpu.f
       /\ Stepped(\h00)' => (/\ cpu' = [cpu EXCEPT !.pc = (cpu.pc + 1) % \h10000]
                              /\ memory' = memory)]_vars

\* INC DE has taken DE from 0xFFFF to 0x0000 with all four flags set before
\* and after
C17_Witness == Stepped(\h13) /\ de(cpu) = 0 /\ cpu.f = \hF0

(***************************************************************************)
(* C18: the bank selection changes only through a write at an address in   *)
(* 0x2000..0x3FFF under MBC1 (writes at 0x0000..0x1FFF, 0x4000..0x7FFF and *)
(* at RAM, OAM, I/O and HRAM addresses and all reads leave it unchanged);  *)
(* under NoMBC a write anywhere in 0x0000..0x7FFF changes nothing at all;  *)
(* no write into 0x0000..0x7FFF changes a ROM byte or a RAM buffer.        *)
(***************************************************************************)
C18_BankFrame ==
    [][/\ (memory'.mbc.rom_bank # memory.mbc.rom_bank)
             => (/\ last'.op = "write" /\ last'.address \in \h2000..\h3FFF
                 /\ memory.mbc.kind = "MBC1")
       /\ (last'.op = "read") => memory' = memory
       /\ (last'.op = "write" /\ last'.address \in \h0000..\h7FFF)
             => (/\ last'.err = NoErr
                 /\ memory' = [memory EXCEPT !.mbc.rom_bank = memory'.mbc.rom_bank]
                 /\ memory.mbc.kind = "NoMBC" => memory' = memory)]_vars

\* a write at 0x4000 under MBC1 that left bank 3, selected earlier, in place
C18_Witness ==
    /\ last.op = "write" /\ last.address = \h4000 /\ last.value = \h1FF
    /\ memory.mbc.kind = "MBC1" /\ memory.mbc.rom_bank = 3

(***************************************************************************)
(* C19: a successful write at address a changes the value later read only  *)
(* at a itself and at its echo alias (a + 0x2000 for a in 0xC000..0xDDFF,  *)
(* a - 0x2000 for a in 0xE000..0xFDFF) or, for an MBC1 bank-select write,  *)
(* only at addresses 0x4000..0x7FFF; the value read at every other address *)
(* is the same before and after the write.                                 *)
(***************************************************************************)
\* the addresses read before and after each write: those the bus is driven
\* with, and the cells 0x1000 away from the driven work-RAM and echo cells
ProbeAddrs ==
    (BusAddrs \cap Word) \cup
    { \h4001, \h8001, \hC001, \hCDFF, \hCE00, \hD000, \hEDFF, \hFF81 }

MayChange(a, kind) ==
    IF a \in \h2000..\h3FFF /\ kind = "MBC1" THEN \h4000..\h7FFF
    ELSE IF a \in \hC000..\hDDFF THEN {a, a + \h2000}
    ELSE IF a \in \hE000..\hFDFF THEN {a, a - \h2000}
    ELSE {a}

C19_WriteFrame ==
    [][(last'.op = "write" /\ last'.err = NoErr /\ memory' # memory)
         => \A b \in ProbeAddrs \ MayChange(last'.address, memory.mbc.kind) :
               read(memory', b) = read(memory, b)]_vars

\* a write at the top of the mirrored part of work RAM, read back through
\* its echo alias, made after a write to external RAM
C19_Witness ==
    /\ last.op = "write" /\ last.address = \hDDFF /\ last.value = \h183 /\ last.err = NoErr
    /\ read(memory, \hFDFF) = Ok(\h83)
    /\ read(memory, \hA000) = Ok(\hFF)

(***************************************************************************)
(* C20: in every step, each address the CPU presents to the bus (the       *)
(* opcode fetch at PC, the operand fetches at PC and PC+1, the second      *)
(* store of LD (a16),SP at p+1, the re-read at PC-1 on the unimplemented   *)
(* path) lies in 0x0000..0xFFFF, so that no step fails with InvalidAddress *)
(* merely because PC or a pointer sits at 0xFFFF or 0x0000.                *)
(***************************************************************************)
C20_BusAddressesInRange ==
    last.op = "step" =>
        \A i \in DOMAIN last.bus : last.bus[i][2] \in Word

(***************************************************************************)
(* C21: under MBC1 with a ROM blob of k complete 16 KiB banks (k >= 2),    *)
(* after any sequence of bus writes every read of an address in            *)
(* 0x0000..0x7FFF returns a byte of the blob: the index                    *)
(* (addr - 0x4000) + bank * 0x4000 is always below the blob length, so a   *)
(* bank-select write never makes a later ROM read fail.                    *)
(***************************************************************************)
C21_BankWithinBlob ==
    (/\ Constructed /\ memory.mbc.kind = "MBC1"
     /\ memory.mbc.rom.len >= 2 * \h4000 /\ memory.mbc.rom.len % \h4000 = 0)
        => /\ memory.mbc.rom_bank * \h4000 + \h3FFF < memory.mbc.rom.len
           /\ \A a \in BusAddrs \cap (\h0000..\h7FFF) : read(memory, a).err = NoErr
           /\ (last.op = "read" /\ last.address \in \h0000..\h7FFF) => last.err = NoErr

(***************************************************************************)
(* C22: a step that fails with any error (UnimplementedOpcode,             *)
(* InvalidAddress, ProhibitedWrite) leaves all memory bytes, the mapper    *)
(* bank, the HALT flag and every register other than PC exactly as they    *)
(* were before the step; e.g. LD (a16),SP whose second store targets a     *)
(* prohibited or invalid address (p = 0xFE9F, p+1 = 0xFEA0) writes         *)
(* nothing.                                                                *)
(***************************************************************************)
C22_FailedStepChangesPCOnly ==
    [][(last'.op = "step" /\ last'.err # NoErr)
         => (/\ memory' = memory
             /\ cpu' = [cpu EXCEPT !.pc = cpu'.pc])]_vars

====
